---- MODULE Spec2Model ----
(***************************************************************************)
(* Acquisition-schedule reconciliation of Synchronizing_PrevOccupAI:       *)
(*   utils.get_most_common_times / _adjust_most_common_times,              *)
(*   utils.get_most_common_acquisition_times,                              *)
(*   visualize.missing_data.get_missing_data and its helpers,              *)
(*   visualize.visualize_acquisitions._add_missing_device as called from   *)
(*   visualize_daily_acquisitions.                                         *)
(*                                                                         *)
(* A time string "HH-MM-SS" is the tuple <<HH, MM, SS>> of its three       *)
(* zero-padded fields; a datetime of the (common) default day is the       *)
(* number of seconds since midnight.                                       *)
(***************************************************************************)
EXTENDS Integers, Sequences, FiniteSets, TLC

(***************************************************************************)
(* Time strings and datetimes                                              *)
(***************************************************************************)

\* datetime.strptime(s, "%H-%M-%S"): seconds since midnight of the default day
strptime(s) == s[1] * 3600 + s[2] * 60 + s[3]

\* datetime.strftime("%H-%M-%S")
strftime(dt) == <<dt \div 3600, (dt % 3600) \div 60, dt % 60>>

\* Python's str "<" on two zero-padded "HH-MM-SS" strings: field by field
StrLess(a, b) ==
    \/ a[1] < b[1]
    \/ a[1] = b[1] /\ a[2] < b[2]
    \/ a[1] = b[1] /\ a[2] = b[2] /\ a[3] < b[3]

\* a faulty sorted(): the list as it comes
UnsortedStrings(l) == l

\* sorted(list_of_time_strings)
SortedStrings(l) == SortSeq(l, LAMBDA a, b : StrLess(a, b))

\* sorted(list_of_datetimes)
SortedDatetimes(l) == SortSeq(l, LAMBDA a, b : a < b)

\* abs((a - b).total_seconds())
AbsSeconds(a, b) == IF a >= b THEN a - b ELSE b - a

Range(l) == {l[i] : i \in DOMAIN l}

\* list(set(l)) followed by sorted(): the order of the set is irrelevant
RECURSIVE SetToSeq(_)
SetToSeq(S) ==
    IF S = {} THEN <<>>
    ELSE LET x == CHOOSE x \in S : TRUE IN <<x>> \o SetToSeq(S \ {x})

\* list(set(l)): the items of the set once each, in any order
Orderings(S) == {order \in [1..Cardinality(S) -> S] : Range(order) = S}

\* the first n items of a list, l[:n]
Take(l, n) == SubSeq(l, 1, IF Len(l) < n THEN Len(l) ELSE n)

(***************************************************************************)
(* utils.py: the time-slot clusterer                                       *)
(***************************************************************************)

\* number of slots kept by get_most_common_times
NumSlots == 4

\* 20 * 60: times closer than this many seconds are merged
MergeSeconds == 20 * 60

\* Counter(acquisition_times_list): <<time, count>> items in first-occurrence order
CounterOf(l) ==
    LET first == {i \in DOMAIN l : \A j \in 1..(i - 1) : l[j] # l[i]}
        idx == SortSeq(SetToSeq(first), LAMBDA a, b : a < b)
        count(t) == Cardinality({i \in DOMAIN l : l[i] = t})
    IN [k \in DOMAIN idx |-> <<l[idx[k]], count(l[idx[k]])>>]

\* a faulty sort of _adjust_most_common_times: by time only
SortByTimeOnly(items) ==
    SortSeq(items, LAMBDA a, b : strptime(a[1]) < strptime(b[1]))

\* a faulty sort of _adjust_most_common_times: occurrences ascending (x[2] for -x[2])
SortByCountAscending(items) ==
    SortSeq(items, LAMBDA a, b :
        \/ a[2] < b[2]
        \/ a[2] = b[2] /\ strptime(a[1]) < strptime(b[1]))

\* times.sort(key=lambda x: (-x[2], x[0])): occurrences descending, then time ascending
SortByCountThenTime(items) ==
    SortSeq(items, LAMBDA a, b :
        \/ a[2] > b[2]
        \/ a[2] = b[2] /\ strptime(a[1]) < strptime(b[1]))

\* a faulty inner loop of _adjust_most_common_times: "<=" for "<"
too_close_or_equal(current, filtered_times) ==
    \E k \in DOMAIN filtered_times :
        AbsSeconds(strptime(current[1]), strptime(filtered_times[k][1])) <= MergeSeconds

\* the inner loop of _adjust_most_common_times: is the candidate too close to a kept time
too_close(current, filtered_times) ==
    \E k \in DOMAIN filtered_times :
        AbsSeconds(strptime(current[1]), strptime(filtered_times[k][1])) < MergeSeconds

\* the filtering loop of _adjust_most_common_times over the sorted items
RECURSIVE FilterTimes(_, _)
FilterTimes(times, filtered_times) ==
    IF times = <<>> THEN filtered_times
    ELSE FilterTimes(Tail(times),
                     IF too_close(Head(times), filtered_times)
                     THEN filtered_times
                     ELSE Append(filtered_times, Head(times)))

\* a faulty _adjust_most_common_times: no time is filtered
unadjusted_counter(counter) == SortByCountThenTime(counter)

\* _adjust_most_common_times(counter): the Counter of the kept times, in kept order
_adjust_most_common_times(counter) == FilterTimes(SortByCountThenTime(counter), <<>>)

\* a faulty selection: most_common() without the number of items
most_common_all(counter, n) ==
    LET tagged == [k \in DOMAIN counter |-> <<counter[k][1], counter[k][2], k>>]
        ordered == SortSeq(tagged, LAMBDA a, b :
                       \/ a[2] > b[2]
                       \/ a[2] = b[2] /\ a[3] < b[3])
    IN [k \in DOMAIN ordered |-> <<ordered[k][1], ordered[k][2]>>]

\* a faulty selection: the first n items of the Counter, whatever their counts
first_items(counter, n) == Take(counter, n)

\* a faulty selection: among equal counts the items inserted last come first
most_common_last_first(counter, n) ==
    LET tagged == [k \in DOMAIN counter |-> <<counter[k][1], counter[k][2], k>>]
        ordered == SortSeq(tagged, LAMBDA a, b :
                       \/ a[2] > b[2]
                       \/ a[2] = b[2] /\ a[3] > b[3])
    IN Take([k \in DOMAIN ordered |-> <<ordered[k][1], ordered[k][2]>>], n)

\* Counter.most_common(n): sorted by count descending, stable for equal counts
most_common(counter, n) ==
    LET tagged == [k \in DOMAIN counter |-> <<counter[k][1], counter[k][2], k>>]
        ordered == SortSeq(tagged, LAMBDA a, b :
                       \/ a[2] > b[2]
                       \/ a[2] = b[2] /\ a[3] < b[3])
    IN Take([k \in DOMAIN ordered |-> <<ordered[k][1], ordered[k][2]>>], n)

\* get_most_common_times(acquisition_times_list, adjust_close_times)
get_most_common_times(acquisition_times_list, adjust_close_times) ==
    IF Cardinality(Range(acquisition_times_list)) <= NumSlots
    THEN SortedStrings(SetToSeq(Range(acquisition_times_list)))
    ELSE LET time_count == CounterOf(acquisition_times_list)
             adjusted == IF adjust_close_times
                         THEN _adjust_most_common_times(time_count)
                         ELSE time_count
             top == most_common(adjusted, NumSlots)
         IN SortedStrings([k \in DOMAIN top |-> top[k][1]])

\* _remove_dates(folder_list): keep the names that start with two digits and a dash
_remove_dates(folder_list) == SelectSeq(folder_list, LAMBDA item : item[1] < 100)

\* get_most_common_acquisition_times, from the folder names collected by os.walk
get_most_common_acquisition_times(folder_names) ==
    LET times == _remove_dates(folder_names)
        standardized == [k \in DOMAIN times |-> <<times[k][1], times[k][2], 0>>]
        slots == get_most_common_times(standardized, TRUE)
    IN [k \in DOMAIN slots |-> strptime(slots[k])]

(***************************************************************************)
(* constants.py, missing_data.py, visualize_acquisitions.py: names         *)
(***************************************************************************)

PHONE == "phone"
WATCH == "watch"

\* the two muscleBANs appear under their MAC addresses; subjects_info.csv gives the side
MAC_LEFT == "F0A55C68B2E1"
MAC_RIGHT == "84FD27E506A9"

SMARTPHONE == "Smartphone"
SMARTWATCH == "Smartwatch"
MBAN_ESQ == "mBAN esq"
MBAN_DIR == "mBAN dir"
DEVICE_ORDER == <<MBAN_ESQ, MBAN_DIR, SMARTWATCH, SMARTPHONE>>

\* 20 * 60: the nominal 20 minute acquisition
ACQUISITION_TIME_SECONDS == 20 * 60

\* default of get_missing_data's and _get_missing_timestamps' tolerance_seconds
DefaultTolerance == 600

\* default of get_missing_data's fs
DefaultFs == 100

\* number of acquisitions scheduled per day
ScheduledPerDay == 4

\* a dictionary is a function on its keys; d[k] = v adds or replaces one item
DictSet(d, k, v) == [x \in (DOMAIN d) \cup {k} |-> IF x = k THEN v ELSE d[x]]

EmptyDict == [x \in {} |-> <<>>]

(***************************************************************************)
(* missing_data.py: the schedule reconciler                                *)
(***************************************************************************)

\* a faulty start of get_missing_data: the dictionary of the call before is used again
kept_missing_data_dict(previous) == previous

\* "missing_data_dict: Dict[str, Dict[str, list]] = {}": each call starts with a new one
new_missing_data_dict(previous) == EmptyDict

\* a faulty _has_close_time: "<" for "<="
has_closer_time(time, time_list_dt, tolerance) ==
    \E k \in DOMAIN time_list_dt : AbsSeconds(time, time_list_dt[k]) < tolerance

\* _has_close_time(time, time_list_dt, tolerance_seconds)
_has_close_time(time, time_list_dt, tolerance) ==
    \E k \in DOMAIN time_list_dt : AbsSeconds(time, time_list_dt[k]) <= tolerance

\* _get_missing_timestamps(unique_timestamps_list, acquisitions_times_list, tolerance_seconds)
_get_missing_timestamps(unique_timestamps_list, acquisitions_times_list, tolerance) ==
    LET device_timestamp_dt ==
            [k \in DOMAIN acquisitions_times_list |-> strptime(acquisitions_times_list[k])]
        missing == SelectSeq(unique_timestamps_list,
                       LAMBDA timestamp :
                           ~ _has_close_time(timestamp, device_timestamp_dt, tolerance))
    IN [k \in DOMAIN missing |-> strftime(missing[k])]

\* a faulty first loop of _find_unique_timestamps: the phone is not skipped
RECURSIVE all_timestamps_with_phone(_, _)
all_timestamps_with_phone(dict, keys) ==
    IF keys = <<>> THEN <<>>
    ELSE LET times == dict[Head(keys)].start_times
         IN [k \in DOMAIN times |-> strptime(times[k])]
            \o all_timestamps_with_phone(dict, Tail(keys))

\* the first loop of _find_unique_timestamps: all start times of the devices but the phone
RECURSIVE all_daily_timestamps(_, _)
all_daily_timestamps(dict, keys) ==
    IF keys = <<>> THEN <<>>
    ELSE LET device == Head(keys)
             times == dict[device].start_times
         IN (IF device = PHONE THEN <<>>
             ELSE [k \in DOMAIN times |-> strptime(times[k])])
            \o all_daily_timestamps(dict, Tail(keys))

\* the second loop of _find_unique_timestamps over the sorted timestamps
RECURSIVE filter_timestamps(_, _, _)
filter_timestamps(sorted, filtered_timestamps, tolerance) ==
    IF sorted = <<>> THEN filtered_timestamps
    ELSE filter_timestamps(Tail(sorted),
             IF filtered_timestamps = <<>>
             THEN <<Head(sorted)>>
             ELSE IF ~ _has_close_time(Head(sorted), filtered_timestamps, tolerance)
                  THEN Append(filtered_timestamps, Head(sorted))
                  ELSE filtered_timestamps,
             tolerance)

\* a faulty _find_unique_timestamps: the default tolerance for tolerance_seconds
find_unique_default_tolerance(dict, keys, tolerance) ==
    filter_timestamps(SortedDatetimes(all_daily_timestamps(dict, keys)), <<>>,
                      DefaultTolerance)

\* _find_unique_timestamps(acquisitions_dict, tolerance_seconds)
_find_unique_timestamps(dict, keys, tolerance) ==
    filter_timestamps(SortedDatetimes(all_daily_timestamps(dict, keys)), <<>>, tolerance)

\* step (2) of get_missing_data: the call of _get_missing_timestamps without a tolerance
consensus_gaps(dict, keys, device, tolerance) ==
    _get_missing_timestamps(_find_unique_timestamps(dict, keys, tolerance),
                            dict[device].start_times, DefaultTolerance)

\* a faulty line 80: "< 3" for "< 4"
acquired_less_than_three(start_times) == Len(start_times) < ScheduledPerDay - 1

\* a faulty line 80: "<= 4" for "< 4"
acquired_at_most_four(start_times) == Len(start_times) <= ScheduledPerDay

\* "if any device that is not phone didn't acquire 4 times, then it's missing"
acquired_less_than_four(start_times) == Len(start_times) < ScheduledPerDay

\* a faulty condition of step (3): ">" for "<"
observed_and_missing_above_four(start_times, missing_times_list) ==
    Len(start_times) + Len(missing_times_list) > ScheduledPerDay

\* a faulty condition of step (3): the missing times found are not counted
observed_below_four(start_times, missing_times_list) ==
    Len(start_times) < ScheduledPerDay

\* the condition of step (3): observed plus missing below four
needs_average_times(start_times, missing_times_list) ==
    Len(start_times) + Len(missing_times_list) < ScheduledPerDay

\* a faulty overflow guard: only the last missing times that fit are kept
clamp_keep_last(start_times, missing_times_list) ==
    IF Len(start_times) + Len(missing_times_list) > ScheduledPerDay
    THEN SubSeq(missing_times_list,
                Len(missing_times_list) - (ScheduledPerDay - Len(start_times)) + 1,
                Len(missing_times_list))
    ELSE missing_times_list

\* a faulty overflow guard: missing_times_list.pop(0)
clamp_first(start_times, missing_times_list) ==
    IF Len(start_times) + Len(missing_times_list) > ScheduledPerDay
    THEN Tail(missing_times_list)
    ELSE missing_times_list

\* the overflow guard at the end of step (3): missing_times_list.pop(-1)
clamp_missing(start_times, missing_times_list) ==
    IF Len(start_times) + Len(missing_times_list) > ScheduledPerDay
    THEN SubSeq(missing_times_list, 1, Len(missing_times_list) - 1)
    ELSE missing_times_list

\* a faulty step (3): the average times are compared with the actual times only
average_gaps_of_start_times(start_times, missing_times_list, average_times_list) ==
    _get_missing_timestamps(average_times_list, start_times, DefaultTolerance)

\* the gaps found against the average times of the week, before the overflow guard
average_gaps(start_times, missing_times_list, average_times_list) ==
    _get_missing_timestamps(average_times_list, start_times \o missing_times_list,
                            DefaultTolerance)

\* steps (1) to (3) of get_missing_data for one device: its missing_times_list
missing_times_for(dict, keys, device, tolerance, average_times_list) ==
    LET start_times == dict[device].start_times
        gaps == consensus_gaps(dict, keys, device, tolerance)
    IN IF needs_average_times(start_times, gaps)
       THEN clamp_missing(start_times,
                gaps \o average_gaps(start_times, gaps, average_times_list))
       ELSE gaps

\* step (4) of get_missing_data: the record stored for a device
missing_record(missing_times_list, rate) ==
    [start_times |-> missing_times_list,
     length |-> [k \in DOMAIN missing_times_list |-> ACQUISITION_TIME_SECONDS * rate]]

(***************************************************************************)
(* visualize_acquisitions.py: device names and the full-day failure        *)
(***************************************************************************)

\* load.get_muscleban_side(meta_data_df, mac_address) for the subject's two muscleBANs
get_muscleban_side(mac_address) ==
    IF mac_address = MAC_LEFT THEN "mBAN_left"
    ELSE IF mac_address = MAC_RIGHT THEN "mBAN_right"
    ELSE "None"

\* the key computed by _normalize_device_names for one raw device name
normalized_name(device_raw) ==
    IF device_raw \in {MAC_LEFT, MAC_RIGHT}
    THEN (IF get_muscleban_side(device_raw) = "mBAN_right" THEN MBAN_DIR ELSE MBAN_ESQ)
    ELSE IF device_raw = PHONE THEN SMARTPHONE
    ELSE SMARTWATCH

\* _normalize_device_names(acquisitions_dict)
_normalize_device_names(dict) ==
    LET names == {normalized_name(r) : r \in DOMAIN dict}
    IN [n \in names |-> dict[CHOOSE r \in DOMAIN dict : normalized_name(r) = n]]

\* missing_devices of _add_missing_device: the roles but the phone without any entry
missing_devices(data, missing) ==
    (Range(DEVICE_ORDER) \ {SMARTPHONE}) \ ((DOMAIN data) \cup (DOMAIN missing))

\* a faulty check of _add_missing_device: "> 3" for "== 3"
more_than_three_missing(data, missing) == Cardinality(missing_devices(data, missing)) > 3

\* the ValueError of _add_missing_device
all_devices_missing(data, missing) == Cardinality(missing_devices(data, missing)) = 3

\* a faulty step (1) of _add_missing_device: the last device of DEVICE_ORDER that fits
last_ref_device(data) ==
    LET candidates == {k \in DOMAIN DEVICE_ORDER :
                           DEVICE_ORDER[k] # SMARTPHONE /\ DEVICE_ORDER[k] \in DOMAIN data}
    IN IF candidates = {} THEN "None"
       ELSE DEVICE_ORDER[CHOOSE k \in candidates : \A j \in candidates : k >= j]

\* step (1) of _add_missing_device: the reference device, "None" if there is none
ref_device(data) ==
    LET candidates == {k \in DOMAIN DEVICE_ORDER :
                           DEVICE_ORDER[k] # SMARTPHONE /\ DEVICE_ORDER[k] \in DOMAIN data}
    IN IF candidates = {} THEN "None"
       ELSE DEVICE_ORDER[CHOOSE k \in candidates : \A j \in candidates : k <= j]

\* a faulty step (2) of _add_missing_device: the missing start times are left out
ref_times_of_data(data, missing) == data[ref_device(data)].start_times

\* step (2) of _add_missing_device: the reference times
ref_times(data, missing) ==
    LET ref == ref_device(data)
    IN data[ref].start_times
       \o (IF ref \in DOMAIN missing THEN missing[ref].start_times ELSE <<>>)

\* the record stored by step (3) of _add_missing_device for a missing device
inferred_record(times, rate) ==
    [start_times |-> SortedStrings(times),
     length |-> [k \in 1..Len(times) |-> ACQUISITION_TIME_SECONDS * rate]]

\* a faulty step (2): "ref_times = data_dict[ref_device][START_TIMES]" without .copy(),
\* so that "ref_times +=" extends the list of data_dict
data_dict_extended(data, missing) ==
    LET ref == ref_device(data)
    IN IF ref = "None" \/ ref \notin DOMAIN missing THEN data
       ELSE [d \in DOMAIN data |->
                IF d = ref
                THEN [data[d] EXCEPT !.start_times = @ \o missing[ref].start_times]
                ELSE data[d]]

\* data_dict after _add_missing_device: ref_times is a copy, data_dict is not written to
data_dict_after_add(data, missing) == data

\* _add_missing_device(data_dict, missing_data_dict, fs) when it returns
_add_missing_device(data, missing, rate) ==
    IF ref_device(data) = "None" THEN missing
    ELSE [d \in (DOMAIN missing) \cup missing_devices(data, missing) |->
             IF d \in missing_devices(data, missing)
             THEN inferred_record(ref_times(data, missing), rate)
             ELSE missing[d]]

(***************************************************************************)
(* State                                                                   *)
(***************************************************************************)

VARIABLES
    pc,                      \* position of the running call
    acquisition_times_list,  \* get_most_common_times: the input list
    adjust_close_times,      \* get_most_common_times: the flag
    time_count,              \* get_most_common_times: the Counter
    most_common_times,       \* get_most_common_times: the returned list
    caller,                  \* who calls get_missing_data: "direct" or "visualize"
    acquisitions_dict,       \* the day's observations, device -> start_times, length
    acq_keys,                \* the iteration order of acquisitions_dict
    folder_names,            \* the folder names os.walk finds under the subject folder
    fs,                      \* get_missing_data: fs
    tolerance_seconds,       \* get_missing_data: tolerance_seconds
    idx,                     \* get_missing_data: position of the device loop
    missing_data_dict,       \* get_missing_data: the mapping built and returned
    history_calls,           \* devices for which get_most_common_acquisition_times ran
    viz_fs,                  \* visualize_daily_acquisitions: fs
    data_dict,               \* visualize_daily_acquisitions: the normalized observations
    viz_missing_data_dict,   \* visualize_daily_acquisitions: the normalized missing data
    run,                     \* 1 in a first call, 2 when the call is made again
    first_times,             \* what the first call of get_most_common_times returned
    first_missing,           \* what the first call of get_missing_data returned
    acquisitions_before,     \* acquisitions_dict as it is passed to get_missing_data
    average_times_list       \* what get_most_common_acquisition_times returned

clusterer_vars == <<acquisition_times_list, adjust_close_times, time_count, most_common_times>>

reconciler_vars == <<caller, acquisitions_dict, acq_keys, folder_names, fs, tolerance_seconds,
                     idx, missing_data_dict, history_calls>>

visualize_vars == <<viz_fs, data_dict, viz_missing_data_dict>>

repeat_vars == <<run, first_times, first_missing, acquisitions_before>>

vars == <<pc, clusterer_vars, reconciler_vars, visualize_vars, repeat_vars,
          average_times_list>>

(***************************************************************************)
(* Inputs                                                                  *)
(***************************************************************************)

\* largest number of occurrences of one time in an input of get_most_common_times
MaxCount == 2

\* the times of the example in the docstring of get_most_common_times
ExampleTimes == << <<10, 30, 0>>, <<10, 31, 0>>, <<10, 35, 0>>,
                   <<10, 41, 0>>, <<11, 0, 0>>, <<11, 12, 0>> >>

\* times of a week with a session restarted after 10 and after exactly 20 minutes
SpreadTimes == << <<8, 0, 0>>, <<8, 20, 0>>, <<10, 0, 0>>,
                  <<10, 10, 0>>, <<12, 0, 0>>, <<14, 0, 0>> >>

Reverse(l) == [k \in DOMAIN l |-> l[Len(l) + 1 - k]]

RECURSIVE Runs(_, _, _)
Runs(pool, counts, k) ==
    IF k > Len(pool) THEN <<>>
    ELSE [j \in 1..counts[k] |-> pool[k]] \o Runs(pool, counts, k + 1)

\* times of a week whose last session was restarted after 10 minutes
LateTimes == << <<8, 0, 0>>, <<8, 20, 0>>, <<10, 0, 0>>,
                <<12, 0, 0>>, <<14, 0, 0>>, <<14, 10, 0>> >>

Pools == {ExampleTimes, SpreadTimes, LateTimes, Reverse(ExampleTimes), Reverse(SpreadTimes)}

InputLists ==
    {Runs(pool, counts, 1) : pool \in Pools, counts \in [1..6 -> 0..MaxCount]}

\* start time lists of one device on one day
ListA == << <<9, 0, 0>>, <<13, 0, 0>> >>
ListB == << <<9, 2, 0>>, <<11, 0, 0>>, <<13, 1, 0>> >>
FullDay == << <<9, 0, 0>>, <<11, 0, 0>>, <<13, 0, 0>>, <<15, 0, 0>> >>
NearPair == << <<8, 52, 0>>, <<9, 10, 0>> >>

DayLists == { <<>>, << <<9, 0, 0>> >>, << <<9, 2, 0>> >>, << <<9, 0, 0>>, <<9, 2, 0>> >>,
              << <<17, 0, 0>> >>, ListA, ListB, FullDay, NearPair }

PhoneLists == { << <<10, 0, 0>> >> }

\* a recorded acquisition: its start time and its number of samples (df.shape[0])
observation(times) ==
    [start_times |-> times,
     length |-> [k \in DOMAIN times |-> ACQUISITION_TIME_SECONDS * DefaultFs]]

\* the order in which the devices enter the dictionary
KeyOrder == <<PHONE, WATCH, MAC_LEFT, MAC_RIGHT>>

DayDicts ==
    UNION {{[d \in devices |-> observation(lists[d])] :
               lists \in {l \in [devices -> DayLists \cup PhoneLists] :
                             \A d \in devices : (d = PHONE) <=> (l[d] \in PhoneLists)}} :
           devices \in SUBSET Range(KeyOrder)}

\* folder names under the subject folder: none, a regular week, a week at other times,
\* a week of three sessions a day
NoFolders == <<>>

RegularWeek == << <<2022, 7, 4>>, <<9, 0, 5>>, <<11, 0, 10>>, <<13, 0, 20>>, <<15, 0, 2>>,
                  <<2022, 7, 5>>, <<9, 0, 30>>, <<11, 0, 0>>, <<13, 1, 10>>, <<15, 0, 40>> >>

EarlyWeek == << <<2022, 7, 4>>, <<7, 0, 12>>, <<8, 0, 3>>, <<10, 0, 0>>, <<10, 30, 59>> >>

ShortWeek == << <<2022, 7, 4>>, <<9, 0, 41>>, <<11, 0, 7>>, <<13, 0, 0>> >>

FolderLists == {NoFolders, RegularWeek, EarlyWeek, ShortWeek}

\* constants.FS_MBAN
FS_MBAN == 1000

FsValues == {DefaultFs, FS_MBAN}

Tolerances == {60, 300, DefaultTolerance}

(***************************************************************************)
(* get_most_common_times, step by step                                     *)
(***************************************************************************)

IdleClusterer ==
    /\ acquisition_times_list = <<>>
    /\ adjust_close_times = FALSE
    /\ time_count = <<>>
    /\ most_common_times = <<>>

IdleReconciler ==
    /\ caller = "none"
    /\ acquisitions_dict = EmptyDict
    /\ acq_keys = <<>>
    /\ folder_names = <<>>
    /\ fs = 0
    /\ tolerance_seconds = 0
    /\ idx = 0
    /\ missing_data_dict = EmptyDict
    /\ history_calls = {}

IdleVisualize ==
    /\ viz_fs = 0
    /\ data_dict = EmptyDict
    /\ viz_missing_data_dict = EmptyDict

\* a first call: nothing was returned before
FirstRun ==
    /\ run = 1
    /\ first_times = <<>>
    /\ first_missing = EmptyDict
    /\ acquisitions_before = acquisitions_dict
    /\ average_times_list = <<>>

\* a call get_most_common_times(acquisition_times_list, adjust_close_times)
InitTimes ==
    /\ pc = "gmct_call"
    /\ acquisition_times_list \in InputLists
    /\ adjust_close_times \in BOOLEAN
    /\ time_count = <<>>
    /\ most_common_times = <<>>
    /\ IdleReconciler
    /\ IdleVisualize
    /\ FirstRun

\* at most four unique times: they are returned sorted
ReturnUniqueTimes ==
    /\ pc = "gmct_call"
    /\ Cardinality(Range(acquisition_times_list)) <= NumSlots
    /\ \E order \in Orderings(Range(acquisition_times_list)) :
           most_common_times' = SortedStrings(order)
    /\ pc' = "gmct_done"
    /\ UNCHANGED <<acquisition_times_list, adjust_close_times, time_count,
                   reconciler_vars, visualize_vars, repeat_vars, average_times_list>>

\* more than four unique times: count the occurrences
CountOccurrences ==
    /\ pc = "gmct_call"
    /\ Cardinality(Range(acquisition_times_list)) > NumSlots
    /\ time_count' = CounterOf(acquisition_times_list)
    /\ pc' = "gmct_counted"
    /\ UNCHANGED <<acquisition_times_list, adjust_close_times, most_common_times,
                   reconciler_vars, visualize_vars, repeat_vars, average_times_list>>

\* if adjust_close_times: time_count = _adjust_most_common_times(time_count)
AdjustCloseTimes ==
    /\ pc = "gmct_counted"
    /\ adjust_close_times
    /\ time_count' = _adjust_most_common_times(time_count)
    /\ pc' = "gmct_adjusted"
    /\ UNCHANGED <<acquisition_times_list, adjust_close_times, most_common_times,
                   reconciler_vars, visualize_vars, repeat_vars, average_times_list>>

\* the four most common times, sorted, are returned
SelectMostCommon ==
    /\ \/ pc = "gmct_counted" /\ ~ adjust_close_times
       \/ pc = "gmct_adjusted"
    /\ LET top == most_common(time_count, NumSlots)
       IN most_common_times' = SortedStrings([k \in DOMAIN top |-> top[k][1]])
    /\ pc' = "gmct_done"
    /\ UNCHANGED <<acquisition_times_list, adjust_close_times, time_count,
                   reconciler_vars, visualize_vars, repeat_vars, average_times_list>>

NextTimes == ReturnUniqueTimes \/ CountOccurrences \/ AdjustCloseTimes \/ SelectMostCommon

SpecTimes == InitTimes /\ [][NextTimes]_vars

(***************************************************************************)
(* get_missing_data and visualize_daily_acquisitions, step by step         *)
(***************************************************************************)

\* a day's observations and the subject folder, before any call
Init ==
    /\ pc = "start"
    /\ IdleClusterer
    /\ caller = "none"
    /\ acquisitions_dict \in DayDicts
    /\ acq_keys = SelectSeq(KeyOrder, LAMBDA d : d \in DOMAIN acquisitions_dict)
    /\ folder_names \in FolderLists
    /\ fs = 0
    /\ tolerance_seconds = 0
    /\ idx = 0
    /\ missing_data_dict = EmptyDict
    /\ history_calls = {}
    /\ IdleVisualize
    /\ FirstRun

\* get_missing_data(subject_folder_path, acquisitions_dict, fs, tolerance_seconds)
CallGetMissingData ==
    /\ pc = "start"
    /\ caller' = "direct"
    /\ \E rate \in FsValues, tolerance \in Tolerances :
           /\ fs' = rate
           /\ tolerance_seconds' = tolerance
    /\ idx' = 1
    /\ missing_data_dict' = new_missing_data_dict(missing_data_dict)
    /\ pc' = "gmd_loop"
    /\ UNCHANGED <<clusterer_vars, acquisitions_dict, acq_keys, folder_names, history_calls,
                   visualize_vars, repeat_vars, average_times_list>>

\* visualize_daily_acquisitions(subject_folder_path, date, fs)
CallVisualize ==
    /\ pc = "start"
    /\ caller' = "visualize"
    /\ \E rate \in FsValues : viz_fs' = rate
    /\ pc' = "viz_call"
    /\ UNCHANGED <<clusterer_vars, acquisitions_dict, acq_keys, folder_names, fs,
                   tolerance_seconds, idx, missing_data_dict, history_calls,
                   data_dict, viz_missing_data_dict, repeat_vars, average_times_list>>

\* the arguments of the call get_missing_data(subject_folder_path, acquisitions_dict)
passed_fs(rate) == DefaultFs

\* missing_data_dict = get_missing_data(subject_folder_path, acquisitions_dict)
VisualizeGetMissingData ==
    /\ pc = "viz_call"
    /\ fs' = passed_fs(viz_fs)
    /\ tolerance_seconds' = DefaultTolerance
    /\ idx' = 1
    /\ missing_data_dict' = new_missing_data_dict(missing_data_dict)
    /\ pc' = "gmd_loop"
    /\ UNCHANGED <<clusterer_vars, caller, acquisitions_dict, acq_keys, folder_names,
                   history_calls, visualize_vars, repeat_vars, average_times_list>>

\* the device loop: "if device == PHONE: continue"
SkipPhone ==
    /\ pc = "gmd_loop"
    /\ idx <= Len(acq_keys)
    /\ acq_keys[idx] = PHONE
    /\ idx' = idx + 1
    /\ UNCHANGED <<pc, clusterer_vars, caller, acquisitions_dict, acq_keys, folder_names, fs,
                   tolerance_seconds, missing_data_dict, history_calls, visualize_vars, repeat_vars,
                   average_times_list>>

\* the device loop: a device that acquired four times
SkipComplete ==
    /\ pc = "gmd_loop"
    /\ idx <= Len(acq_keys)
    /\ acq_keys[idx] # PHONE
    /\ ~ acquired_less_than_four(acquisitions_dict[acq_keys[idx]].start_times)
    /\ idx' = idx + 1
    /\ UNCHANGED <<pc, clusterer_vars, caller, acquisitions_dict, acq_keys, folder_names, fs,
                   tolerance_seconds, missing_data_dict, history_calls, visualize_vars, repeat_vars,
                   average_times_list>>

\* a faulty line 92: data[START_TIMES] += missing_times_list
start_times_extended(start_times, missing_times_list) == start_times \o missing_times_list

\* "temp_list = data[START_TIMES] + missing_times_list" builds a new list:
\* data[START_TIMES] is what it was
start_times_after_temp_list(start_times, missing_times_list) == start_times

\* the device loop: steps (1) to (4) for a device that acquired less than four times
ReconcileDevice ==
    /\ pc = "gmd_loop"
    /\ idx <= Len(acq_keys)
    /\ acq_keys[idx] # PHONE
    /\ acquired_less_than_four(acquisitions_dict[acq_keys[idx]].start_times)
    /\ LET device == acq_keys[idx]
           start_times == acquisitions_dict[device].start_times
           gaps == consensus_gaps(acquisitions_dict, acq_keys, device, tolerance_seconds)
           missing_times_list ==
               missing_times_for(acquisitions_dict, acq_keys, device, tolerance_seconds,
                                 get_most_common_acquisition_times(folder_names))
           old == IF device \in DOMAIN missing_data_dict
                  THEN missing_data_dict[device]
                  ELSE [start_times |-> <<>>, length |-> <<>>]
           new == missing_record(missing_times_list, fs)
       IN /\ missing_data_dict' =
                 DictSet(missing_data_dict, device,
                         [start_times |-> old.start_times \o new.start_times,
                          length |-> old.length \o new.length])
          /\ history_calls' = IF needs_average_times(start_times, gaps)
                              THEN history_calls \cup {device}
                              ELSE history_calls
          /\ acquisitions_dict' =
                 IF needs_average_times(start_times, gaps)
                 THEN [acquisitions_dict EXCEPT ![device].start_times =
                           start_times_after_temp_list(start_times, gaps)]
                 ELSE acquisitions_dict
    /\ idx' = idx + 1
    /\ UNCHANGED <<pc, clusterer_vars, caller, acq_keys, folder_names, fs,
                   tolerance_seconds, visualize_vars, repeat_vars, average_times_list>>

\* return missing_data_dict
ReturnMissingData ==
    /\ pc = "gmd_loop"
    /\ idx > Len(acq_keys)
    /\ pc' = IF caller = "direct" THEN "gmd_done" ELSE "viz_got_missing"
    /\ UNCHANGED <<clusterer_vars, reconciler_vars, visualize_vars, repeat_vars,
                   average_times_list>>

\* "if acquisitions_dict:" fails, nothing is plotted
VisualizeNoData ==
    /\ pc = "viz_got_missing"
    /\ DOMAIN acquisitions_dict = {}
    /\ pc' = "viz_nodata"
    /\ UNCHANGED <<clusterer_vars, reconciler_vars, visualize_vars, repeat_vars,
                   average_times_list>>

\* both dictionaries get the normalized device names
VisualizeNormalize ==
    /\ pc = "viz_got_missing"
    /\ DOMAIN acquisitions_dict # {}
    /\ data_dict' = _normalize_device_names(acquisitions_dict)
    /\ viz_missing_data_dict' = _normalize_device_names(missing_data_dict)
    /\ pc' = "viz_normalized"
    /\ UNCHANGED <<clusterer_vars, reconciler_vars, viz_fs, repeat_vars, average_times_list>>

\* "if len(acquisitions_dict) < 4" fails: all four devices acquired on the day
VisualizeAllPresent ==
    /\ pc = "viz_normalized"
    /\ ~ (Cardinality(DOMAIN data_dict) < 4)
    /\ pc' = "viz_complete"
    /\ UNCHANGED <<clusterer_vars, reconciler_vars, visualize_vars, repeat_vars,
                   average_times_list>>

\* _add_missing_device raises ValueError
AddMissingDeviceRaises ==
    /\ pc = "viz_normalized"
    /\ Cardinality(DOMAIN data_dict) < 4
    /\ all_devices_missing(data_dict, viz_missing_data_dict)
    /\ pc' = "viz_raised"
    /\ UNCHANGED <<clusterer_vars, reconciler_vars, visualize_vars, repeat_vars,
                   average_times_list>>

\* missing_data_dict = _add_missing_device(acquisitions_dict, missing_data_dict, fs=fs)
AddMissingDevice ==
    /\ pc = "viz_normalized"
    /\ Cardinality(DOMAIN data_dict) < 4
    /\ ~ all_devices_missing(data_dict, viz_missing_data_dict)
    /\ viz_missing_data_dict' = _add_missing_device(data_dict, viz_missing_data_dict, viz_fs)
    /\ data_dict' = data_dict_after_add(data_dict, viz_missing_data_dict)
    /\ pc' = "viz_added"
    /\ UNCHANGED <<clusterer_vars, reconciler_vars, viz_fs, repeat_vars, average_times_list>>

Next ==
    \/ CallGetMissingData
    \/ CallVisualize
    \/ VisualizeGetMissingData
    \/ SkipPhone
    \/ SkipComplete
    \/ ReconcileDevice
    \/ ReturnMissingData
    \/ VisualizeNoData
    \/ VisualizeNormalize
    \/ VisualizeAllPresent
    \/ AddMissingDeviceRaises
    \/ AddMissingDevice

Spec == Init /\ [][Next]_vars

(***************************************************************************)
(* The same call made a second time                                        *)
(***************************************************************************)

\* get_most_common_times is called again with the same arguments
RepeatTimes ==
    /\ pc = "gmct_done"
    /\ run = 1
    /\ run' = 2
    /\ first_times' = most_common_times
    /\ time_count' = <<>>
    /\ most_common_times' = <<>>
    /\ pc' = "gmct_call"
    /\ UNCHANGED <<acquisition_times_list, adjust_close_times, reconciler_vars,
                   visualize_vars, first_missing, acquisitions_before, average_times_list>>

\* get_missing_data is called again with the same arguments; os.walk may list the
\* folders of the subject in another order
RepeatMissingData ==
    /\ pc = "gmd_done"
    /\ run = 1
    /\ run' = 2
    /\ first_missing' = missing_data_dict
    /\ folder_names' \in {folder_names, Reverse(folder_names)}
    /\ idx' = 1
    /\ missing_data_dict' = new_missing_data_dict(missing_data_dict)
    /\ history_calls' = {}
    /\ pc' = "gmd_loop"
    /\ UNCHANGED <<clusterer_vars, caller, acquisitions_dict, acq_keys, fs,
                   tolerance_seconds, visualize_vars, first_times, acquisitions_before,
                   average_times_list>>

InitRepeat == InitTimes \/ Init

NextRepeat ==
    \/ ReturnUniqueTimes
    \/ CountOccurrences
    \/ AdjustCloseTimes
    \/ SelectMostCommon
    \/ RepeatTimes
    \/ CallGetMissingData
    \/ SkipPhone
    \/ SkipComplete
    \/ ReconcileDevice
    \/ ReturnMissingData
    \/ RepeatMissingData

SpecRepeat == InitRepeat /\ [][NextRepeat]_vars

(***************************************************************************)
(* The same call made with its input in another order                      *)
(***************************************************************************)

Rotated(l) == IF l = <<>> THEN l ELSE Tail(l) \o <<Head(l)>>

\* get_most_common_times is called with the same times in another order
PermuteTimes ==
    /\ pc = "gmct_done"
    /\ run = 1
    /\ run' = 2
    /\ first_times' = most_common_times
    /\ acquisition_times_list' \in
           {Reverse(acquisition_times_list), Rotated(acquisition_times_list)}
    /\ time_count' = <<>>
    /\ most_common_times' = <<>>
    /\ pc' = "gmct_call"
    /\ UNCHANGED <<adjust_close_times, reconciler_vars, visualize_vars, first_missing,
                   acquisitions_before, average_times_list>>

\* get_missing_data is called with the same observations: either the devices are in the
\* reverse order in the mapping, or the lists of each device are in the reverse order
PermuteMissingData ==
    /\ pc = "gmd_done"
    /\ run = 1
    /\ run' = 2
    /\ first_missing' = missing_data_dict
    /\ \E reordered \in {"devices", "times"} :
           /\ acq_keys' = IF reordered = "devices" THEN Reverse(acq_keys) ELSE acq_keys
           /\ acquisitions_dict' =
                  [d \in DOMAIN acquisitions_dict |->
                      IF reordered = "times"
                      THEN [start_times |-> Reverse(acquisitions_dict[d].start_times),
                            length |-> Reverse(acquisitions_dict[d].length)]
                      ELSE acquisitions_dict[d]]
    /\ acquisitions_before' = acquisitions_dict'
    /\ idx' = 1
    /\ missing_data_dict' = new_missing_data_dict(missing_data_dict)
    /\ history_calls' = {}
    /\ pc' = "gmd_loop"
    /\ UNCHANGED <<clusterer_vars, caller, folder_names, fs, tolerance_seconds,
                   visualize_vars, first_times, average_times_list>>

NextPermuted ==
    \/ ReturnUniqueTimes
    \/ CountOccurrences
    \/ AdjustCloseTimes
    \/ SelectMostCommon
    \/ PermuteTimes

SpecPermuted == InitTimes /\ [][NextPermuted]_vars

NextPermutedDay ==
    \/ CallGetMissingData
    \/ SkipPhone
    \/ SkipComplete
    \/ ReconcileDevice
    \/ ReturnMissingData
    \/ PermuteMissingData

SpecPermutedDay == Init /\ [][NextPermutedDay]_vars

(***************************************************************************)
(* get_most_common_acquisition_times, step by step                         *)
(***************************************************************************)

\* the name of a date folder
DateFolder == <<2022, 7, 4>>

\* the times of a list as the names of time folders, with seconds
WithSeconds(l) == [k \in DOMAIN l |-> <<l[k][1], l[k][2], (7 * k) % 60>>]

\* the folder names os.walk finds under a subject folder
SlotFolders == FolderLists \cup {<<DateFolder>> \o WithSeconds(l) : l \in InputLists}

\* a call get_most_common_acquisition_times(data_path)
InitSlots ==
    /\ pc = "gmcat_call"
    /\ IdleClusterer
    /\ caller = "none"
    /\ acquisitions_dict = EmptyDict
    /\ acq_keys = <<>>
    /\ folder_names \in SlotFolders
    /\ fs = 0
    /\ tolerance_seconds = 0
    /\ idx = 0
    /\ missing_data_dict = EmptyDict
    /\ history_calls = {}
    /\ IdleVisualize
    /\ FirstRun

\* the folder names are collected, the dates removed, the seconds replaced by 00, and
\* get_most_common_times(acquisition_times_list, adjust_close_times=True) is called
WalkFolders ==
    /\ pc = "gmcat_call"
    /\ LET times == _remove_dates(folder_names)
       IN acquisition_times_list' = [k \in DOMAIN times |-> <<times[k][1], times[k][2], 0>>]
    /\ adjust_close_times' = TRUE
    /\ pc' = "gmct_call"
    /\ UNCHANGED <<time_count, most_common_times, reconciler_vars, visualize_vars,
                   repeat_vars, average_times_list>>

\* return [datetime.strptime(time, "%H-%M-%S") for time in acquisition_times_list]
ReturnSlots ==
    /\ pc = "gmct_done"
    /\ average_times_list' = [k \in DOMAIN most_common_times |-> strptime(most_common_times[k])]
    /\ pc' = "gmcat_done"
    /\ UNCHANGED <<clusterer_vars, reconciler_vars, visualize_vars, repeat_vars>>

NextSlots ==
    \/ WalkFolders
    \/ ReturnUniqueTimes
    \/ CountOccurrences
    \/ AdjustCloseTimes
    \/ SelectMostCommon
    \/ ReturnSlots

SpecSlots == InitSlots /\ [][NextSlots]_vars

(***************************************************************************)
(* Properties of get_missing_data and _add_missing_device                  *)
(***************************************************************************)

\* get_missing_data has returned its mapping, which is missing_data_dict
GmdReturned == caller # "none" /\ pc \notin {"start", "viz_call", "gmd_loop"}

NonPhone(dict) == (DOMAIN dict) \ {PHONE}

Observed(d) == acquisitions_dict[d].start_times

Missing(d) == missing_data_dict[d].start_times

AverageTimes == get_most_common_acquisition_times(folder_names)

\* C1: for every device of the mapping returned by get_missing_data, the number of
\* observed start times plus the number of missing start times is at most 4.
C1_FourSessionCeiling ==
    GmdReturned =>
        \A d \in DOMAIN missing_data_dict : Len(Observed(d)) + Len(Missing(d)) <= 4

\* C2: a device other than the phone with 4 observed start times gets no missing
\* record, whatever the other devices and the history are, and the historical slots
\* are not requested for it.
C2_CompleteDeviceUntouched ==
    \A d \in NonPhone(acquisitions_dict) :
        Len(Observed(d)) = 4 =>
            /\ d \notin history_calls
            /\ d \in DOMAIN missing_data_dict => Missing(d) = <<>>

\* C2 witness: a device with 4 observed times was passed by while another device,
\* which acquired at a time the first one did not, had missing times found
C2_Witness ==
    /\ GmdReturned
    /\ \E d \in NonPhone(acquisitions_dict), e \in DOMAIN missing_data_dict :
           /\ Len(Observed(d)) = 4
           /\ d \notin DOMAIN missing_data_dict
           /\ Missing(e) # <<>>
           /\ \E k \in DOMAIN Observed(e) :
                  ~ _has_close_time(strptime(Observed(e)[k]),
                                    [j \in DOMAIN Observed(d) |-> strptime(Observed(d)[j])],
                                    DefaultTolerance)

\* the day of C3: A acquired at 09:00 and 13:00, B at 09:02, 11:00 and 13:01, no other
\* device but the phone acquired, and the tolerance is 300 seconds
C3_Day(a, b) ==
    /\ a \in NonPhone(acquisitions_dict)
    /\ b \in NonPhone(acquisitions_dict)
    /\ Observed(a) = ListA
    /\ Observed(b) = ListB
    /\ \A d \in NonPhone(acquisitions_dict) \ {a, b} : Observed(d) = <<>>
    /\ tolerance_seconds = 300

\* the historical slots more than 600 seconds away from each of the given times
FarSlots(times) ==
    {t \in Range(AverageTimes) :
        \A k \in DOMAIN times : AbsSeconds(t, strptime(times[k])) > 600}

\* C3 as stated: on that day get_missing_data yields exactly one missing record for A,
\* at 11:00, and no missing record for B.
C3_Original ==
    \A a, b \in DOMAIN acquisitions_dict :
        (GmdReturned /\ C3_Day(a, b)) =>
            /\ Missing(a) = << <<11, 0, 0>> >>
            /\ Missing(b) = <<>>

\* C3 as amended: on that day the first missing record of A is 11:00, the only one
\* taken from another device, and B gets none from another device; every further
\* missing record of A or B is a historical slot more than 600 seconds away from the
\* observed times of the device (and from 11:00 for A); where there is no such slot
\* A has exactly the one record at 11:00 and B has none.
C3_UnionConsistency ==
    \A a, b \in DOMAIN acquisitions_dict :
        (GmdReturned /\ C3_Day(a, b)) =>
            /\ Len(Missing(a)) >= 1
            /\ Missing(a)[1] = <<11, 0, 0>>
            /\ \A k \in 2..Len(Missing(a)) :
                   strptime(Missing(a)[k]) \in FarSlots(ListA \o << <<11, 0, 0>> >>)
            /\ \A k \in DOMAIN Missing(b) : strptime(Missing(b)[k]) \in FarSlots(ListB)
            /\ FarSlots(ListA \o << <<11, 0, 0>> >>) = {} => Len(Missing(a)) = 1
            /\ FarSlots(ListB) = {} => Missing(b) = <<>>

\* C3 witness: the day of C3 was reconciled with historical slots, all of them close
\* to the sessions of the day
C3_Witness ==
    \E a, b \in DOMAIN acquisitions_dict :
        /\ GmdReturned
        /\ C3_Day(a, b)
        /\ AverageTimes # <<>>
        /\ {a, b} \subseteq history_calls
        /\ Missing(a) = << <<11, 0, 0>> >>
        /\ Missing(b) = <<>>

NonPhoneRoles == {MBAN_ESQ, MBAN_DIR, SMARTWATCH}

\* the dictionary passed to _add_missing_device as missing_data_dict
PassedMissing == _normalize_device_names(missing_data_dict)

AddMissingDeviceCalled == pc \in {"viz_raised", "viz_added"}

\* C4: when mBAN esq, mBAN dir and Smartwatch are all absent from data_dict and from
\* missing_data_dict, _add_missing_device raises ValueError and leaves
\* missing_data_dict as it was passed in.
C4_FatalPath ==
    (/\ AddMissingDeviceCalled
     /\ \A r \in NonPhoneRoles : r \notin DOMAIN data_dict /\ r \notin DOMAIN PassedMissing)
        => /\ pc = "viz_raised"
           /\ viz_missing_data_dict = PassedMissing

\* C4 witness: _add_missing_device raised for a day on which only the phone acquired
C4_Witness ==
    /\ pc = "viz_raised"
    /\ DOMAIN data_dict = {SMARTPHONE}
    /\ DOMAIN PassedMissing = {}

\* the consensus gaps of a device
Gaps(d) == consensus_gaps(acquisitions_dict, acq_keys, d, tolerance_seconds)

\* the gaps of a device against the historical slots, found when these are requested
HistoricalGaps(d) == average_gaps(Observed(d), Gaps(d), AverageTimes)

\* the case of C7: no observed time, the historical slots are requested, 5 candidates
C7_Case(d) ==
    /\ GmdReturned
    /\ d \in NonPhone(acquisitions_dict)
    /\ Observed(d) = <<>>
    /\ d \in history_calls
    /\ Len(Gaps(d)) + Len(HistoricalGaps(d)) = 5

\* the latest of a sequence of time strings in time-of-day order
Latest(times) ==
    CHOOSE t \in Range(times) : \A u \in Range(times) : strptime(u) <= strptime(t)

\* C7 as stated: with 5 candidate missing times (consensus gaps plus historical gaps)
\* for a device with 0 observed sessions, exactly 4 are returned and the one dropped is
\* the latest of the 5 in time-of-day order.
C7_Original ==
    \A d \in DOMAIN acquisitions_dict :
        C7_Case(d) =>
            /\ Len(Missing(d)) = 4
            /\ Range(Missing(d)) =
                   Range(Gaps(d) \o HistoricalGaps(d)) \ {Latest(Gaps(d) \o HistoricalGaps(d))}

\* C7 as amended: with 5 candidate missing times for a device with 0 observed sessions,
\* exactly 4 are returned, the consensus gaps followed by the historical gaps without
\* the last one appended: the one dropped is the latest of the historical gaps, which
\* need not be the latest of the 5.
C7_OverflowClamp ==
    \A d \in DOMAIN acquisitions_dict :
        C7_Case(d) =>
            /\ Len(Missing(d)) = 4
            /\ Missing(d) = SubSeq(Gaps(d) \o HistoricalGaps(d), 1, 4)
            /\ HistoricalGaps(d) # <<>>
            /\ Range(Missing(d)) =
                   Range(Gaps(d) \o HistoricalGaps(d)) \ {Latest(HistoricalGaps(d))}

\* C7 witness: the clamp dropped a historical gap although a consensus gap was later
C7_Witness ==
    \E d \in DOMAIN acquisitions_dict :
        /\ C7_Case(d)
        /\ Len(Missing(d)) = 4
        /\ Latest(Gaps(d) \o HistoricalGaps(d)) \in Range(Missing(d))

\* every record of a mapping has as many lengths as start times, each 20*60*rate
NominalLengths(dict, rate) ==
    \A d \in DOMAIN dict :
        /\ Len(dict[d].start_times) = Len(dict[d].length)
        /\ \A k \in DOMAIN dict[d].length : dict[d].length[k] = 20 * 60 * rate

\* C8: in every mapping returned by get_missing_data, and in missing_data_dict after
\* _add_missing_device returns, each device has as many lengths as start times and
\* every length is 20*60*fs for the fs passed to that function.
C8_NominalLengths ==
    /\ GmdReturned => NominalLengths(missing_data_dict, fs)
    /\ pc = "viz_added" => NominalLengths(viz_missing_data_dict, viz_fs)

\* every device but the phone has an empty start_times list
AllEmpty == \A d \in NonPhone(acquisitions_dict) : Observed(d) = <<>>

\* C9 as stated: when every device but the phone has an empty start_times list,
\* get_missing_data returns without raising and no device gets a missing record.
C9_Original ==
    (GmdReturned /\ AllEmpty) =>
        \A d \in DOMAIN missing_data_dict : Missing(d) = <<>>

\* C9 as amended: when every device but the phone has an empty start_times list,
\* get_missing_data returns without raising and every device but the phone gets
\* exactly the historical slots as missing records, so none only when there is no
\* historical slot.
C9_AllEmptyInput ==
    (GmdReturned /\ AllEmpty) =>
        /\ DOMAIN missing_data_dict = NonPhone(acquisitions_dict)
        /\ \A d \in DOMAIN missing_data_dict :
               /\ Missing(d) = [k \in DOMAIN AverageTimes |-> strftime(AverageTimes[k])]
               /\ Missing(d) = <<>> <=> AverageTimes = <<>>

\* C9 witness: a day without any start time got the four slots of a regular week
C9_Witness ==
    /\ GmdReturned
    /\ AllEmpty
    /\ folder_names = RegularWeek
    /\ \E d \in DOMAIN missing_data_dict :
           Missing(d) = << <<9, 0, 0>>, <<11, 0, 0>>, <<13, 0, 0>>, <<15, 0, 0>> >>

(***************************************************************************)
(* Properties of get_most_common_times                                     *)
(***************************************************************************)

\* number of occurrences of a time in the input list
Occurrences(t) ==
    Cardinality({i \in DOMAIN acquisition_times_list : acquisition_times_list[i] = t})

DistinctTimes == Range(acquisition_times_list)

\* the times of the Counter
CountedTimes == {time_count[k][1] : k \in DOMAIN time_count}

\* C5: for every input list and either value of adjust_close_times,
\* get_most_common_times returns at most 4 times, without duplicates, in ascending
\* time-of-day order.
C5_AtMostFourSortedDistinct ==
    pc = "gmct_done" =>
        /\ Len(most_common_times) <= 4
        /\ \A i, j \in DOMAIN most_common_times :
               i # j => most_common_times[i] # most_common_times[j]
        /\ \A i, j \in DOMAIN most_common_times :
               i < j => strptime(most_common_times[i]) <= strptime(most_common_times[j])

\* C5 witness: four times were returned for an input with more than four distinct
\* times that was not in ascending order
C5_Witness ==
    /\ pc = "gmct_done"
    /\ Cardinality(DistinctTimes) > 4
    /\ Len(most_common_times) = 4
    /\ strptime(acquisition_times_list[1]) >
           strptime(acquisition_times_list[Len(acquisition_times_list)])

\* u is visited before t: more occurrences, or as many and an earlier time
VisitedBefore(u, t) ==
    \/ Occurrences(u) > Occurrences(t)
    \/ Occurrences(u) = Occurrences(t) /\ strptime(u) < strptime(t)

\* the merge step has run and its result is in time_count
Merged ==
    \/ pc = "gmct_adjusted"
    \/ pc = "gmct_done" /\ adjust_close_times /\ Cardinality(DistinctTimes) > 4

\* the six times of the docstring example, each once
IsExampleInput ==
    /\ Len(acquisition_times_list) = 6
    /\ DistinctTimes = Range(ExampleTimes)

\* C6: with adjust_close_times=True and more than four distinct times, the merge step
\* keeps exactly the times of the greedy rule (visit by occurrences descending, then
\* time ascending; keep a time only if it is at least 20 minutes from every time kept
\* before it); of 10:30, 10:31, 10:35, 10:41, 11:00, 11:12, each once, exactly 10:30
\* and 11:00 survive.
C6_GreedyMerge ==
    Merged =>
        /\ CountedTimes \subseteq DistinctTimes
        /\ \A t \in DistinctTimes :
               t \in CountedTimes <=>
                   \A u \in CountedTimes :
                       VisitedBefore(u, t) => AbsSeconds(strptime(u), strptime(t)) >= 20 * 60
        /\ IsExampleInput => CountedTimes = {<<10, 30, 0>>, <<11, 0, 0>>}
        /\ (IsExampleInput /\ pc = "gmct_done") =>
               most_common_times = << <<10, 30, 0>>, <<11, 0, 0>> >>

\* C6 witness: the docstring example went through the merge step and was returned
C6_Witness ==
    /\ pc = "gmct_done"
    /\ adjust_close_times
    /\ acquisition_times_list = ExampleTimes
    /\ most_common_times = << <<10, 30, 0>>, <<11, 0, 0>> >>

\* C10 as stated: with more than four distinct input times the result has exactly
\* four times, for either value of adjust_close_times.
C10_Original ==
    (pc = "gmct_done" /\ Cardinality(DistinctTimes) > 4) => Len(most_common_times) = 4

\* C10 as amended: with more than four distinct input times and adjust_close_times
\* False the result has exactly four times, the four most common; with
\* adjust_close_times True it has the most common of the times kept by the merge step,
\* four of them if more than four were kept and all of them (at least one) otherwise.
C10_FourMostCommon ==
    (pc = "gmct_done" /\ Cardinality(DistinctTimes) > 4) =>
        LET result == Range(most_common_times)
            pool == IF adjust_close_times THEN CountedTimes ELSE DistinctTimes
        IN /\ result \subseteq pool
           /\ Len(most_common_times) = IF Cardinality(pool) > 4 THEN 4 ELSE Cardinality(pool)
           /\ Len(most_common_times) >= 1
           /\ ~ adjust_close_times => Len(most_common_times) = 4
           /\ \A t \in result, u \in pool \ result : Occurrences(t) >= Occurrences(u)

\* C10 witness: an input with more than four distinct times gave fewer than four times
C10_Witness ==
    /\ pc = "gmct_done"
    /\ Cardinality(DistinctTimes) > 4
    /\ adjust_close_times
    /\ Len(most_common_times) < 4

(***************************************************************************)
(* Properties of a call made twice                                         *)
(***************************************************************************)

\* C11: get_most_common_times and get_missing_data are deterministic: a second call
\* with the same arguments (same time list and flag; same acquisitions mapping, fs,
\* tolerance and folders of the subject) returns what the first call returned, whatever
\* the order in which the set of times and the folders are listed, and nothing the
\* first call left behind changes the second.
C11_Deterministic ==
    /\ (pc = "gmct_done" /\ run = 2) => most_common_times = first_times
    /\ (pc = "gmd_done" /\ run = 2) => missing_data_dict = first_missing

\* C11 witness: a second call of get_missing_data returned, with the folders of a regular
\* week listed backwards, after a first call that found missing times in the history
C11_Witness ==
    /\ pc = "gmd_done"
    /\ run = 2
    /\ folder_names = Reverse(RegularWeek)
    /\ history_calls # {}
    /\ \E d \in DOMAIN first_missing :
           /\ first_missing[d].start_times # <<>>
           /\ d \in history_calls

(***************************************************************************)
(* Properties of the reconciliation of one device                          *)
(***************************************************************************)

\* the consensus set of the day
Consensus == _find_unique_timestamps(acquisitions_dict, acq_keys, tolerance_seconds)

\* the observed start times of a device as datetimes
ObservedDt(d) == [k \in DOMAIN Observed(d) |-> strptime(Observed(d)[k])]

\* no time of the list lies within the tolerance of t
NoneWithin(t, times_dt, tolerance) ==
    \A k \in DOMAIN times_dt : AbsSeconds(t, times_dt[k]) > tolerance

\* the time strings of a list of datetimes
Strings(times_dt) == [k \in DOMAIN times_dt |-> strftime(times_dt[k])]

IsPrefix(a, b) == Len(a) <= Len(b) /\ a = SubSeq(b, 1, Len(a))

\* C12: for every tolerance_seconds passed to get_missing_data a consensus time is
\* recorded as missing for a device exactly when no observed start time of the device
\* lies within tolerance_seconds of it, and the historical slots recorded after them are
\* slots, in their order, that have no observed time and no consensus gap of the device
\* within that same tolerance_seconds.
C12_ConfiguredTolerance ==
    GmdReturned =>
        \A d \in DOMAIN missing_data_dict :
            LET gaps_dt == SelectSeq(Consensus,
                               LAMBDA c : NoneWithin(c, ObservedDt(d), tolerance_seconds))
                slots_dt == SelectSeq(AverageTimes,
                                LAMBDA h : NoneWithin(h, ObservedDt(d) \o gaps_dt,
                                                      tolerance_seconds))
            IN /\ IsPrefix(Strings(gaps_dt), Missing(d))
               /\ IsPrefix(SubSeq(Missing(d), Len(gaps_dt) + 1, Len(Missing(d))),
                           Strings(slots_dt))

\* the consensus entries that have an observed time of the device within 600 seconds
MatchedEntries(d) ==
    LET unique_timestamps_list == Consensus
    IN {k \in DOMAIN unique_timestamps_list :
           ~ NoneWithin(unique_timestamps_list[k], ObservedDt(d), 600)}

\* C13 as stated: get_missing_data queries the historical slots only when the consensus
\* set of the day has fewer than four entries.
C13_Original ==
    GmdReturned => (history_calls # {} => Len(Consensus) < 4)

\* C13 as amended: get_missing_data queries the historical slots for a device exactly
\* when the device has fewer than four observed start times and its observed count plus
\* the number of consensus entries without an observed time of the device within 600
\* seconds is below four; with a consensus of four or more entries a device triggers
\* the query only when more consensus entries lie within 600 seconds of its observed
\* times than it has observed times.
C13_HistoryTrigger ==
    GmdReturned =>
        \A d \in NonPhone(acquisitions_dict) :
            LET entries == Len(Consensus)
                matched == Cardinality(MatchedEntries(d))
            IN /\ d \in history_calls <=>
                      /\ Len(Observed(d)) < 4
                      /\ Len(Observed(d)) + entries - matched < 4
               /\ (d \in history_calls /\ entries >= 4) => matched > Len(Observed(d))

\* C13 witness: with the default tolerance and a consensus of four entries the
\* historical slots were queried for a device whose only observed time lies within 600
\* seconds of two entries
C13_Witness ==
    /\ GmdReturned
    /\ tolerance_seconds = 600
    /\ Len(Consensus) = 4
    /\ \E d \in history_calls :
           /\ Len(Observed(d)) = 1
           /\ Cardinality(MatchedEntries(d)) = 2

\* the start times of all devices but the phone
NonPhoneTimes ==
    UNION {Range(ObservedDt(d)) : d \in NonPhone(acquisitions_dict)}

\* get_missing_data has called _find_unique_timestamps for a device
ConsensusBuilt == pc # "start" /\ DOMAIN missing_data_dict # {}

\* C14: the consensus set of _find_unique_timestamps is made of start times of the
\* devices other than the phone, in ascending order; a time is kept exactly when no
\* earlier kept time lies within tolerance_seconds of it (absolute difference <=
\* tolerance, so a difference of exactly the tolerance is the same session); no
\* timestamp of the phone enters it.
C14_ConsensusSet ==
    ConsensusBuilt =>
        LET unique_timestamps_list == Consensus
            kept == Range(unique_timestamps_list)
            times == NonPhoneTimes
        IN /\ kept \subseteq times
           /\ \A i, j \in DOMAIN unique_timestamps_list :
                  i < j => unique_timestamps_list[i] < unique_timestamps_list[j]
           /\ \A t \in times :
                  t \in kept <=> \A u \in kept : u < t => t - u > tolerance_seconds
           /\ PHONE \in DOMAIN acquisitions_dict =>
                  \A k \in DOMAIN Observed(PHONE) : strptime(Observed(PHONE)[k]) \notin kept

\* C14 witness: with a tolerance of 60 seconds and the phone present, 13:01 of one
\* device was taken for the session of 13:00 of another, exactly 60 seconds earlier
C14_Witness ==
    /\ ConsensusBuilt
    /\ tolerance_seconds = 60
    /\ PHONE \in DOMAIN acquisitions_dict
    /\ strptime(<<13, 0, 0>>) \in Range(Consensus)
    /\ strptime(<<13, 1, 0>>) \in NonPhoneTimes \ Range(Consensus)

\* the consensus entries without an observed time of the device within 600 seconds
UnmatchedEntries(d) ==
    SelectSeq(Consensus, LAMBDA c : NoneWithin(c, ObservedDt(d), 600))

\* the historical slots without an observed time or an unmatched consensus entry of the
\* device within 600 seconds
UnmatchedSlots(d) ==
    LET known == ObservedDt(d) \o UnmatchedEntries(d)
    IN SelectSeq(AverageTimes, LAMBDA h : NoneWithin(h, known, 600))

\* C15 as stated: when the observed count plus the consensus-gap count of a device is
\* below 4, its missing list is the consensus gaps followed, in the order of the
\* historical list, by exactly the historical slots that are within tolerance (the 600
\* seconds of the matching) of no observed time and of no consensus gap of the device;
\* when the count is 4 or more the missing list is the consensus gaps alone.
C15_Original ==
    GmdReturned =>
        \A d \in DOMAIN missing_data_dict :
            LET gaps == UnmatchedEntries(d)
                slots == UnmatchedSlots(d)
            IN Missing(d) = IF Len(Observed(d)) + Len(gaps) < 4
                            THEN Strings(gaps \o slots)
                            ELSE Strings(gaps)

\* C15 as amended: as stated, except that when the observed count plus the consensus
\* gaps plus the historical slots so found exceeds 4, the last of these slots is left
\* out.
C15_HistoricalAppend ==
    GmdReturned =>
        \A d \in DOMAIN missing_data_dict :
            LET gaps == UnmatchedEntries(d)
                slots == UnmatchedSlots(d)
                total == Len(Observed(d)) + Len(gaps) + Len(slots)
            IN Missing(d) = IF Len(Observed(d)) + Len(gaps) < 4
                            THEN (IF total > 4
                                  THEN Strings(gaps \o SubSeq(slots, 1, Len(slots) - 1))
                                  ELSE Strings(gaps \o slots))
                            ELSE Strings(gaps)

\* C15 witness: a device observed at 09:00 and 13:00 with the consensus gap 11:00 got,
\* of the slots 09:00, 11:00, 13:00 and 15:00 of a regular week, only 15:00 appended
C15_Witness ==
    /\ GmdReturned
    /\ folder_names = RegularWeek
    /\ \E d \in history_calls :
           /\ Observed(d) = ListA
           /\ Missing(d) = << <<11, 0, 0>>, <<15, 0, 0>> >>

(***************************************************************************)
(* Properties of the merge step and of the selection                       *)
(***************************************************************************)

\* the distance of two time strings in seconds
Apart(t, u) == AbsSeconds(strptime(t), strptime(u))

\* C16 as stated: in the merge step a candidate is accepted only if it is strictly more
\* than 20 minutes away from every time accepted before it; one exactly 20 minutes
\* from an accepted time is merged away.
C16_Original ==
    Merged =>
        \A t, u \in CountedTimes : t # u => Apart(t, u) > 20 * 60

\* C16 as amended: in the merge step a candidate is accepted exactly when it is at least
\* 20 minutes away from every time accepted before it: the accepted times are pairwise
\* 20 minutes or more apart, and every time merged away is strictly less than 20
\* minutes from a time accepted before it, so a candidate exactly 20 minutes from an
\* accepted time is kept.
C16_AtLeastTwentyMinutes ==
    Merged =>
        /\ \A t, u \in CountedTimes : t # u => Apart(t, u) >= 20 * 60
        /\ \A t \in DistinctTimes \ CountedTimes :
               \E u \in CountedTimes : VisitedBefore(u, t) /\ Apart(t, u) < 20 * 60

\* C16 witness: 08:00 and 08:20, exactly 20 minutes apart, were both accepted
C16_Witness ==
    /\ Merged
    /\ <<8, 0, 0>> \in CountedTimes
    /\ <<8, 20, 0>> \in CountedTimes

\* t and u are less than 20 minutes apart and t occurs less often than u
LowerOfNearPair(t, u) == Apart(t, u) < 20 * 60 /\ Occurrences(t) < Occurrences(u)

\* C17 as stated: of two input times within 20 minutes of each other with different
\* occurrence counts, the one with the lower count is never in the merged set.
C17_Original ==
    Merged =>
        \A t, u \in DistinctTimes : LowerOfNearPair(t, u) => t \notin CountedTimes

\* C17 as amended: of two input times less than 20 minutes apart with different
\* occurrence counts, the lower-count time is not kept when the higher-count time is
\* kept; it is kept only when the higher-count time was itself merged away by a time
\* accepted before it (less than 20 minutes from the higher-count time) that is 20
\* minutes or more from the lower-count time.
C17_HigherCountWins ==
    Merged =>
        \A t, u \in DistinctTimes :
            LowerOfNearPair(t, u) =>
                /\ u \in CountedTimes => t \notin CountedTimes
                /\ t \in CountedTimes =>
                       /\ u \notin CountedTimes
                       /\ \E v \in CountedTimes :
                              /\ VisitedBefore(v, u)
                              /\ Apart(v, u) < 20 * 60
                              /\ Apart(v, t) >= 20 * 60

\* C17 witness: 11:00, seen once, was kept although 10:41, seen twice and 19 minutes
\* from it, was merged away (into 10:30)
C17_Witness ==
    /\ Merged
    /\ Occurrences(<<11, 0, 0>>) = 1
    /\ Occurrences(<<10, 41, 0>>) = 2
    /\ <<11, 0, 0>> \in CountedTimes
    /\ <<10, 41, 0>> \notin CountedTimes
    /\ <<10, 30, 0>> \in CountedTimes

\* the place in the merged Counter of the representative of an input time: its own
\* place if it was accepted, else that of the first accepted time less than 20 minutes
\* from it
Representative(t) ==
    IF t \in CountedTimes
    THEN CHOOSE k \in DOMAIN time_count : time_count[k][1] = t
    ELSE LET near == {k \in DOMAIN time_count : Apart(t, time_count[k][1]) < 20 * 60}
         IN CHOOSE k \in near : \A j \in near : k <= j

\* the occurrences of a representative once the input list is rewritten to the
\* representatives
ClusterTotal(k) ==
    Cardinality({i \in DOMAIN acquisition_times_list :
                    Representative(acquisition_times_list[i]) = k})

\* C18: with adjust_close_times=True each input time merged into an accepted
\* representative counts as an occurrence of that representative: the merged Counter
\* holds the total of each cluster, and the four times returned are representatives
\* whose cluster totals are not below that of any representative left out.
C18_ClusterFrequency ==
    Merged =>
        /\ \A k \in DOMAIN time_count : time_count[k][2] = ClusterTotal(k)
        /\ pc = "gmct_done" =>
               \A k, j \in DOMAIN time_count :
                   (/\ time_count[k][1] \in Range(most_common_times)
                    /\ time_count[j][1] \notin Range(most_common_times))
                       => ClusterTotal(k) >= ClusterTotal(j)

\* the times returned
Returned == Range(most_common_times)

C20_FewDistinctTimes ==
    /\ (pc = "gmct_call" /\ Cardinality(DistinctTimes) <= 4) => ENABLED ReturnUniqueTimes
    /\ (pc = "gmct_done" /\ Cardinality(DistinctTimes) <= 4) =>
           /\ Returned = DistinctTimes
           /\ Len(most_common_times) = Cardinality(DistinctTimes)
           /\ \A i, j \in DOMAIN most_common_times :
                  i < j => strptime(most_common_times[i]) < strptime(most_common_times[j])
           /\ acquisition_times_list = <<>> => most_common_times = <<>>

\* C20 witness: with adjust_close_times=True an input of at most four distinct times,
\* given latest time first, came back with both 10:30 and 10:31
C20_Witness ==
    /\ pc = "gmct_done"
    /\ adjust_close_times
    /\ Cardinality(DistinctTimes) <= 4
    /\ {<<10, 30, 0>>, <<10, 31, 0>>} \subseteq Returned
    /\ strptime(acquisition_times_list[1]) >
           strptime(acquisition_times_list[Len(acquisition_times_list)])

(***************************************************************************)
(* Properties of _add_missing_device                                       *)
(***************************************************************************)

\* the roles other than the Smartphone in the order of DEVICE_ORDER
RoleOrder == SelectSeq(DEVICE_ORDER, LAMBDA r : r # SMARTPHONE)

\* a role has evidence for the day: an entry in data_dict or in missing_data_dict as
\* they are passed to _add_missing_device
Evident(r) == r \in DOMAIN _normalize_device_names(acquisitions_dict) \/ r \in DOMAIN PassedMissing

\* the roles other than the Smartphone without evidence
Lacking == {r \in NonPhoneRoles : ~ Evident(r)}

\* the first role of the order that has evidence
FirstEvident ==
    LET places == {k \in DOMAIN RoleOrder : Evident(RoleOrder[k])}
    IN RoleOrder[CHOOSE k \in places : \A j \in places : k <= j]

\* the observed and the reconciled missing start times of a role, as passed
EvidenceTimes(r) ==
    LET passed_data == _normalize_device_names(acquisitions_dict)
    IN (IF r \in DOMAIN passed_data THEN passed_data[r].start_times ELSE <<>>)
       \o (IF r \in DOMAIN PassedMissing THEN PassedMissing[r].start_times ELSE <<>>)

\* C21: _add_missing_device takes as reference the first role, in the order mBAN esq,
\* mBAN dir, Smartwatch, that has evidence for the day; the Smartphone is never the
\* reference; whenever fewer than three of these roles lack evidence the call returns
\* and every role lacking evidence has received the times of that reference.
C21_ReferenceChoice ==
    (AddMissingDeviceCalled /\ Cardinality(Lacking) < 3) =>
        /\ pc = "viz_added"
        /\ FirstEvident # SMARTPHONE
        /\ \A r \in Lacking :
               /\ r \in DOMAIN viz_missing_data_dict
               /\ Range(viz_missing_data_dict[r].start_times) = Range(EvidenceTimes(FirstEvident))

\* C21 witness: with the Smartphone and two other roles present at different times,
\* the third role received the times of the first of the two and not those of the other
C21_Witness ==
    /\ pc = "viz_added"
    /\ SMARTPHONE \in DOMAIN data_dict
    /\ Cardinality(Lacking) = 1
    /\ \E r \in Lacking, o \in NonPhoneRoles \ Lacking :
           /\ o # FirstEvident
           /\ Range(EvidenceTimes(o)) # Range(EvidenceTimes(FirstEvident))
           /\ Range(viz_missing_data_dict[r].start_times) = Range(EvidenceTimes(FirstEvident))
           /\ viz_missing_data_dict[r].start_times # <<>>

\* number of times t occurs in a list
CountIn(t, l) == Cardinality({k \in DOMAIN l : l[k] = t})

\* C22: every role other than the Smartphone without evidence gets from
\* _add_missing_device, as missing start times, the observed start times of the
\* reference together with the reference's reconciled missing start times (if it has
\* any), in ascending order, and as lengths one entry 20*60*fs per time, fs being the
\* rate passed to _add_missing_device; it gets as many sessions as the reference has
\* observed and missing times together.
C22_InferredSessions ==
    pc = "viz_added" =>
        \A r \in Lacking :
            LET ref == FirstEvident
                observed == data_dict[ref].start_times
                reconciled == IF ref \in DOMAIN PassedMissing
                              THEN PassedMissing[ref].start_times
                              ELSE <<>>
                inferred == viz_missing_data_dict[r]
            IN /\ Len(inferred.start_times) = Len(observed) + Len(reconciled)
               /\ \A t \in Range(observed \o reconciled) \cup Range(inferred.start_times) :
                      CountIn(t, inferred.start_times) = CountIn(t, observed \o reconciled)
               /\ \A i, j \in DOMAIN inferred.start_times :
                      i < j => strptime(inferred.start_times[i])
                                   <= strptime(inferred.start_times[j])
               /\ Len(inferred.length) = Len(inferred.start_times)
               /\ \A k \in DOMAIN inferred.length : inferred.length[k] = 20 * 60 * viz_fs

\* C22 witness: at 1000 Hz a role without evidence got four sessions from a reference
\* observed at 09:00 and 13:00 with the reconciled missing times 11:00 and 15:00
C22_Witness ==
    /\ pc = "viz_added"
    /\ viz_fs = 1000
    /\ \E r \in Lacking :
           /\ data_dict[FirstEvident].start_times = ListA
           /\ FirstEvident \in DOMAIN PassedMissing
           /\ PassedMissing[FirstEvident].start_times = << <<11, 0, 0>>, <<15, 0, 0>> >>
           /\ viz_missing_data_dict[r].start_times = FullDay

\* C23: _add_missing_device adds entries only for the roles other than the Smartphone
\* that are absent from both data_dict and missing_data_dict: data_dict is as it was
\* passed, every entry that missing_data_dict had is unchanged (those of the reference
\* too), the keys added are exactly the absent roles, and when no such role is absent
\* nothing is added.
C23_OnlyAbsentRolesAdded ==
    pc = "viz_added" =>
        /\ data_dict = _normalize_device_names(acquisitions_dict)
        /\ DOMAIN viz_missing_data_dict = (DOMAIN PassedMissing) \cup Lacking
        /\ \A d \in DOMAIN PassedMissing : viz_missing_data_dict[d] = PassedMissing[d]
        /\ Lacking = {} => viz_missing_data_dict = PassedMissing

\* C23 witness: a role was added from a reference that has reconciled missing times of
\* its own, next to another role with missing times
C23_Witness ==
    /\ pc = "viz_added"
    /\ Lacking # {}
    /\ FirstEvident \in DOMAIN PassedMissing
    /\ PassedMissing[FirstEvident].start_times # <<>>
    /\ data_dict[FirstEvident].start_times # <<>>
    /\ \E o \in DOMAIN PassedMissing : o # FirstEvident /\ PassedMissing[o].start_times # <<>>

\* visualize_daily_acquisitions has got the mapping of get_missing_data
VisualizeReconciled ==
    caller = "visualize" /\ pc \notin {"start", "viz_call", "gmd_loop"}

C25_KeySet ==
    GmdReturned =>
        /\ DOMAIN missing_data_dict =
               {d \in NonPhone(acquisitions_dict) : Len(Observed(d)) < 4}
        /\ PHONE \notin DOMAIN missing_data_dict
        /\ \A d \in DOMAIN acquisitions_dict :
               Len(Observed(d)) >= 4 => d \notin DOMAIN missing_data_dict

\* C25 witness: next to the phone, a device with 3 observed times is a key with an empty
\* missing list, and so is a device without any observed time
C25_Witness ==
    /\ GmdReturned
    /\ PHONE \in DOMAIN acquisitions_dict
    /\ \E d, e \in DOMAIN missing_data_dict :
           /\ Len(Observed(d)) = 3
           /\ Missing(d) = <<>>
           /\ Observed(e) = <<>>
           /\ Missing(e) # <<>>

\* C26: the consensus set of _find_unique_timestamps holds only observed start times of
\* devices other than the phone, any two of its members are more than
\* tolerance_seconds apart, and every observed start time of a device other than the
\* phone is within tolerance_seconds of a member.
C26_ConsensusInvariants ==
    ConsensusBuilt =>
        LET kept == Range(Consensus)
            times == NonPhoneTimes
        IN /\ kept \subseteq times
           /\ \A a, b \in kept : a # b => AbsSeconds(a, b) > tolerance_seconds
           /\ \A t \in times : \E u \in kept : AbsSeconds(t, u) <= tolerance_seconds

\* C26 witness: with a tolerance of 300 seconds the five start times 09:00, 09:02,
\* 11:00, 13:00 and 13:01 of two devices gave a consensus of three members
C26_Witness ==
    /\ ConsensusBuilt
    /\ tolerance_seconds = 300
    /\ \E a, b \in NonPhone(acquisitions_dict) : C3_Day(a, b)
    /\ Cardinality(NonPhoneTimes) = 5
    /\ Consensus = <<strptime(<<9, 0, 0>>), strptime(<<11, 0, 0>>), strptime(<<13, 0, 0>>)>>

\* C27: the overflow guard of get_missing_data never removes a gap found against the
\* consensus: for every device of the returned mapping each consensus time is within
\* 600 seconds of an observed time of the device or is in its missing list, the missing
\* list starts with all these gaps, and when the guard removes a time it is one
\* appended from the historical slots.
C27_ClampSparesConsensusGaps ==
    GmdReturned =>
        \A d \in DOMAIN missing_data_dict :
            LET unique_timestamps_list == Consensus
                gaps == Strings(UnmatchedEntries(d))
                appended == IF d \in history_calls THEN HistoricalGaps(d) ELSE <<>>
            IN /\ \A k \in DOMAIN unique_timestamps_list :
                      \/ ~ NoneWithin(unique_timestamps_list[k], ObservedDt(d), 600)
                      \/ strftime(unique_timestamps_list[k]) \in Range(Missing(d))
               /\ IsPrefix(gaps, Missing(d))
               /\ Len(Missing(d)) < Len(gaps) + Len(appended) =>
                      /\ appended # <<>>
                      /\ Missing(d) = gaps \o SubSeq(appended, 1, Len(appended) - 1)

\* C27 witness: for a device without observed times the guard removed the last of four
\* historical slots and kept the gap found against the consensus
C27_Witness ==
    /\ GmdReturned
    /\ \E d \in history_calls :
           /\ Observed(d) = <<>>
           /\ Len(Gaps(d)) = 1
           /\ Len(HistoricalGaps(d)) = 4
           /\ Missing(d) = Gaps(d) \o SubSeq(HistoricalGaps(d), 1, 3)

\* C28: the result of get_most_common_times depends only on the multiset of the input
\* times: called with the same times in another order, for either value of
\* adjust_close_times, it returns what it returned before.
C28_PermutationInvariant ==
    (pc = "gmct_done" /\ run = 2) => most_common_times = first_times

\* C30: get_missing_data leaves its input unchanged and its result does not depend on
\* the order of the input: during and after the call, on every path, the start_times
\* and length lists of every device in acquisitions_dict are what they were when the
\* mapping was passed, and called with the devices or the times of each device in
\* another order it returns for every device what it returned before.
C30_InputUnchangedOrderFree ==
    /\ acquisitions_dict = acquisitions_before
    /\ (pc = "gmd_done" /\ run = 2) => missing_data_dict = first_missing

\* C30 witness: the call with the input in another order has returned; for a device
\* without observed times the historical slots were asked and the overflow guard
\* removed one, and another device has two observed times
C30_Witness ==
    /\ pc = "gmd_done"
    /\ run = 2
    /\ acquisitions_dict = acquisitions_before
    /\ missing_data_dict = first_missing
    /\ \E d \in history_calls :
           /\ Observed(d) = <<>>
           /\ Len(Gaps(d)) + Len(HistoricalGaps(d)) > ScheduledPerDay
           /\ Len(Missing(d)) = ScheduledPerDay
    /\ \E d \in DOMAIN acquisitions_dict : Len(Observed(d)) >= 2

\* the standardized folder times have more than four distinct values
ManyFolderTimes == Cardinality(Range(acquisition_times_list)) > NumSlots

\* the members of a list of datetimes are pairwise at least 20 minutes apart
PairwiseApart(l) ==
    \A i, j \in DOMAIN l : i # j => AbsSeconds(l[i], l[j]) >= MergeSeconds

\* C29 as stated: every list of historical slots returned by
\* get_most_common_acquisition_times has its members pairwise at least 20 minutes apart.
C29_Original ==
    pc = "gmcat_done" => PairwiseApart(average_times_list)

\* C29, amended: a list of historical slots returned by get_most_common_acquisition_times
\* has its members pairwise at least 20 minutes apart when the folders have more than
\* four distinct standardized times; when they have at most four, all of them are
\* returned, unmerged and in ascending order.
C29_SlotsApart ==
    pc = "gmcat_done" =>
        /\ ManyFolderTimes => PairwiseApart(average_times_list)
        /\ ~ ManyFolderTimes =>
               /\ Range(average_times_list) =
                      {strptime(t) : t \in Range(acquisition_times_list)}
               /\ Len(average_times_list) = Cardinality(Range(acquisition_times_list))
               /\ \A k \in 1..(Len(average_times_list) - 1) :
                      average_times_list[k] < average_times_list[k + 1]

\* C29 witness: six distinct folder times, two of them 10 minutes apart, gave slots
\* that are pairwise at least 20 minutes apart
C29_Witness ==
    /\ pc = "gmcat_done"
    /\ Cardinality(Range(acquisition_times_list)) = 6
    /\ {<<10, 0, 0>>, <<10, 10, 0>>} \subseteq Range(acquisition_times_list)
    /\ Len(average_times_list) = NumSlots
    /\ PairwiseApart(average_times_list)
    /\ \E k \in DOMAIN folder_names : folder_names[k][3] # 0

====
